---- MODULE Spec2Model ----
(***************************************************************************)
(* Model of src/main.py: a GraphQL resolver layer (strawberry) over two    *)
(* SQLModel tables, User and Post, stored in SQLite.                       *)
(*                                                                         *)
(* The store is the pair of tables (users, posts).  Every resolver call    *)
(* runs in its own handler p; handlers interleave at the store accesses    *)
(* (session.get, the lazy load of user.posts, session.commit,              *)
(* session.refresh).  The code that follows the last store access of a     *)
(* resolver (building the strawberry object, leaving the with-block) is    *)
(* local and belongs to the same action as that access.                    *)
(*                                                                         *)
(* session.commit() either inserts the row or raises (the insert fails     *)
(* and nothing is written).  The engine of line 13 is created without      *)
(* turning on SQLite's foreign_keys pragma, so the foreign key declared    *)
(* on Post.author_id (line 21) is not checked by the store.                *)
(***************************************************************************)
EXTENDS Integers, Sequences, FiniteSets, TLC

\* ---------------------------------------------------------------- bounds
NumProcs == 2
MaxRows == 3

Procs == 1..NumProcs
\* the id and author_id values the callers submit
Ids == {1, 2}

\* argument values the callers submit (empty strings included)
Names == {"", "Ada"}
Emails == {"ada@example.com"}
Titles == {"T"}
Categories == {"C"}
Summaries == {"S"}

\* Optional[...]: None is the empty tuple, a present value v is <<v>>
None == <<>>
Some(v) == <<v>>

VARIABLES
    users,      \* rows of table user
    posts,      \* rows of table post
    open,       \* the Session objects that are open
    pc,         \* pc[p]: where handler p is in its resolver
    session,    \* session[p]: the variable `session` of handler p
    locals,     \* locals[p]: the other local variables of handler p
    response,   \* what the step just taken returned to its caller, if it returned
    created     \* history: the PostType values create_post has returned

vars == <<users, posts, open, pc, session, locals, response, created>>

\* ------------------------------------------------------------ the store

\* PRAGMA foreign_keys of the connections the engine hands out
foreign_keys == FALSE

RowIds(table) == {r.id : r \in table}

\* an object's id is Optional[int]; the row written for a flushed object
Row(obj) == [obj EXCEPT !.id = obj.id[1]]

\* the object a row is loaded as
Loaded(row) == [row EXCEPT !.id = Some(row.id)]

MaxOf(S) == CHOOSE m \in S : \A n \in S : n <= m

\* mutant: the generated key repeats the largest key in use
NewRowidStuck(table) == IF table = {} THEN 1 ELSE MaxOf(RowIds(table))

\* the key SQLite generates for an INTEGER PRIMARY KEY left NULL
NewRowid(table) == IF table = {} THEN 1 ELSE MaxOf(RowIds(table)) + 1

\* mutant: the insert replaces the table's rows
InsertReplace(table, row) == {row}

\* INSERT of one row
Insert(table, row) == table \cup {row}

\* mutant: the lookup ignores the key
session_get_any(table, id) ==
    IF table = {} THEN None ELSE Some(Loaded(CHOOSE r \in table : TRUE))

\* session.get(Model, id): the row with that primary key, or None
session_get(table, id) ==
    IF \E r \in table : r.id = id
    THEN Some(Loaded(CHOOSE r \in table : r.id = id))
    ELSE None

\* mutant: the relationship is loaded without its join condition
user_posts_all(table, user) == {Loaded(post) : post \in table}

\* user.posts: the rows of post whose author_id is the user's id
user_posts(table, user) ==
    {Loaded(post) : post \in {r \in table : r.author_id = user.id[1]}}

\* the store checks Post.author_id only when foreign_keys is on
FkOk(author_id) == (~foreign_keys) \/ (author_id \in RowIds(users))

\* the orders in which a SELECT without ORDER BY can deliver a set of rows
Orders(S) == {s \in [1..Cardinality(S) -> S] : \A r \in S : \E i \in DOMAIN s : s[i] = r}

\* --------------------------------------------------------------- sessions

\* mutant: every handler uses one global session
SessionShared(o) == 1

\* Session(engine): a new Session object
Session(o) == CHOOSE n \in 1..(Cardinality(o) + 1) : n \notin o /\ \A m \in 1..(n - 1) : m \in o

\* mutant: leaving the block does not close the session
SessionLeak(o, s) == o

\* leaving `with Session(engine) as session:` closes the session
SessionExit(o, s) == o \ {s}

\* ----------------------------------------------------------- the records

\* mutant: the constructor's arguments are crossed
UserCrossed(name, email) == [id |-> None, name |-> email, email |-> name]

\* User(name=name, email=email); id defaults to None
User(name, email) == [id |-> None, name |-> name, email |-> email]

\* mutant: the constructor is given the wrong author
PostFirstAuthor(title, category, summary, author_id) ==
    [id |-> None, title |-> title, category |-> category, summary |-> summary,
     author_id |-> 1]

\* Post(title=title, category=category, summary=summary, author_id=author_id)
Post(title, category, summary, author_id) ==
    [id |-> None, title |-> title, category |-> category, summary |-> summary,
     author_id |-> author_id]

\* PostType(id=post.id, title=post.title, ...)
PostType(post) ==
    [id |-> post.id, title |-> post.title, category |-> post.category,
     summary |-> post.summary, author_id |-> post.author_id]

\* UserType(id=user.id, name=user.name, email=user.email, posts=[...])
UserType(user, postlist) ==
    [id |-> user.id, name |-> user.name, email |-> user.email, posts |-> postlist]

NoResponse == [op |-> "none", args |-> <<>>, status |-> "none", value |-> None]

Init ==
    /\ users = {}
    /\ posts = {}
    /\ open = {}
    /\ pc = [p \in Procs |-> "idle"]
    /\ session = [p \in Procs |-> None]
    /\ locals = [p \in Procs |-> None]
    /\ response = NoResponse
    /\ created = {}

\* a resolver is entered: its with-block opens a session
Enter(p, label, frame) ==
    /\ pc[p] = "idle"
    /\ LET s == Session(open)
       IN /\ open' = open \cup {s}
          /\ session' = [session EXCEPT ![p] = Some(s)]
    /\ pc' = [pc EXCEPT ![p] = label]
    /\ locals' = [locals EXCEPT ![p] = frame]

\* a resolver is left, by return or by raise: the with-block closes the session
Leave(p, op, args, status, value) ==
    /\ open' = SessionExit(open, session[p][1])
    /\ session' = [session EXCEPT ![p] = None]
    /\ pc' = [pc EXCEPT ![p] = "idle"]
    /\ locals' = [locals EXCEPT ![p] = None]
    /\ response' = [op |-> op, args |-> args, status |-> status, value |-> value]

\* ------------------------------------------------------- Query.get_user

call_get_user(p, id) ==
    /\ Enter(p, "get_user_get", [id |-> id])
    /\ response' = NoResponse
    /\ UNCHANGED <<users, posts, created>>

\* user = session.get(User, id); if not user: raise HTTPException(404)
get_user_get(p) ==
    /\ pc[p] = "get_user_get"
    /\ LET user == session_get(users, locals[p].id)
       IN IF user = None
          THEN Leave(p, "get_user", <<locals[p].id>>, "NotFound", None)
          ELSE /\ pc' = [pc EXCEPT ![p] = "get_user_posts"]
               /\ locals' = [locals EXCEPT ![p] = [id |-> locals[p].id, user |-> user[1]]]
               /\ response' = NoResponse
               /\ UNCHANGED <<open, session>>
    /\ UNCHANGED <<users, posts, created>>

\* return UserType(..., posts=[PostType(...) for post in user.posts])
get_user_posts(p) ==
    /\ pc[p] = "get_user_posts"
    /\ \E rows \in Orders(user_posts(posts, locals[p].user)) :
          Leave(p, "get_user", <<locals[p].id>>, "ok",
                Some(UserType(locals[p].user, [i \in DOMAIN rows |-> PostType(rows[i])])))
    /\ UNCHANGED <<users, posts, created>>

\* ------------------------------------------------------- Query.get_post

call_get_post(p, id) ==
    /\ Enter(p, "get_post_get", [id |-> id])
    /\ response' = NoResponse
    /\ UNCHANGED <<users, posts, created>>

\* post = session.get(Post, id); if not post: raise; return PostType(...)
get_post_get(p) ==
    /\ pc[p] = "get_post_get"
    /\ LET post == session_get(posts, locals[p].id)
       IN IF post = None
          THEN Leave(p, "get_post", <<locals[p].id>>, "NotFound", None)
          ELSE Leave(p, "get_post", <<locals[p].id>>, "ok", Some(PostType(post[1])))
    /\ UNCHANGED <<users, posts, created>>

\* -------------------------------------------------- Mutation.create_user

\* the rows of the store, and those that handlers inside a create resolver
\* have yet to commit
Rows ==
    Cardinality(users) + Cardinality(posts)
        + Cardinality({q \in Procs : pc[q] \in {"create_user_commit", "create_post_commit"}})

\* new_user = User(name=name, email=email); session.add(new_user)
call_create_user(p, name, email) ==
    /\ Rows < MaxRows
    /\ Enter(p, "create_user_commit",
             [name |-> name, email |-> email, new_user |-> User(name, email)])
    /\ response' = NoResponse
    /\ UNCHANGED <<users, posts, created>>

\* session.commit(): the INSERT is written with a generated id
create_user_commit(p) ==
    /\ pc[p] = "create_user_commit"
    /\ LET id == NewRowid(users)
           new_user == [locals[p].new_user EXCEPT !.id = Some(id)]
       IN /\ users' = Insert(users, Row(new_user))
          /\ locals' = [locals EXCEPT ![p].new_user = new_user]
    /\ pc' = [pc EXCEPT ![p] = "create_user_refresh"]
    /\ response' = NoResponse
    /\ UNCHANGED <<posts, open, session, created>>

\* session.commit() raises: nothing is written, the exception propagates
create_user_commit_fails(p) ==
    /\ pc[p] = "create_user_commit"
    /\ Leave(p, "create_user", <<locals[p].name, locals[p].email>>, "OperationalError", None)
    /\ UNCHANGED <<users, posts, created>>

\* session.refresh(new_user); return UserType(..., posts=[])
create_user_refresh(p) ==
    /\ pc[p] = "create_user_refresh"
    /\ LET new_user == session_get(users, locals[p].new_user.id[1])[1]
       IN Leave(p, "create_user", <<locals[p].name, locals[p].email>>, "ok",
                Some(UserType(new_user, <<>>)))
    /\ UNCHANGED <<users, posts, created>>

\* -------------------------------------------------- Mutation.create_post

\* new_post = Post(title=..., category=..., summary=..., author_id=...); session.add(new_post)
call_create_post(p, title, category, summary, author_id) ==
    /\ Rows < MaxRows
    /\ Enter(p, "create_post_commit",
             [title |-> title, category |-> category, summary |-> summary,
              author_id |-> author_id,
              new_post |-> Post(title, category, summary, author_id)])
    /\ response' = NoResponse
    /\ UNCHANGED <<users, posts, created>>

PostArgs(p) == <<locals[p].title, locals[p].category, locals[p].summary, locals[p].author_id>>

\* session.commit(): the INSERT is written with a generated id
create_post_commit(p) ==
    /\ pc[p] = "create_post_commit"
    /\ FkOk(locals[p].new_post.author_id)
    /\ LET id == NewRowid(posts)
           new_post == [locals[p].new_post EXCEPT !.id = Some(id)]
       IN /\ posts' = Insert(posts, Row(new_post))
          /\ locals' = [locals EXCEPT ![p].new_post = new_post]
    /\ pc' = [pc EXCEPT ![p] = "create_post_refresh"]
    /\ response' = NoResponse
    /\ UNCHANGED <<users, open, session, created>>

\* session.commit() raises: nothing is written, the exception propagates
create_post_commit_fails(p) ==
    /\ pc[p] = "create_post_commit"
    /\ Leave(p, "create_post", PostArgs(p),
             IF FkOk(locals[p].new_post.author_id) THEN "OperationalError" ELSE "IntegrityError",
             None)
    /\ UNCHANGED <<users, posts, created>>

\* session.refresh(new_post); return PostType(...)
create_post_refresh(p) ==
    /\ pc[p] = "create_post_refresh"
    /\ LET new_post == session_get(posts, locals[p].new_post.id[1])[1]
           result == PostType(new_post)
       IN /\ Leave(p, "create_post", PostArgs(p), "ok", Some(result))
          /\ created' = created \cup {result}
    /\ UNCHANGED <<users, posts>>

Next ==
    \E p \in Procs :
        \/ \E id \in Ids : call_get_user(p, id)
        \/ get_user_get(p)
        \/ get_user_posts(p)
        \/ \E id \in Ids : call_get_post(p, id)
        \/ get_post_get(p)
        \/ \E name \in Names, email \in Emails : call_create_user(p, name, email)
        \/ create_user_commit(p)
        \/ create_user_commit_fails(p)
        \/ create_user_refresh(p)
        \/ \E title \in Titles, category \in Categories, summary \in Summaries, author_id \in Ids :
               call_create_post(p, title, category, summary, author_id)
        \/ create_post_commit(p)
        \/ create_post_commit_fails(p)
        \/ create_post_refresh(p)

Spec == Init /\ [][Next]_vars

\* ------------------------------------------------------------ properties

Returned(op) == response.op = op /\ response.status = "ok"

\* handler p takes the step that leaves label
Steps(p, label) == pc[p] = label /\ pc'[p] # label

\* C1: create_post with an author_id that is no User's id fails with an
\* error and leaves the table of posts as it was.
C1_UnknownAuthorRejected ==
    [][\A p \in Procs :
          (Steps(p, "create_post_commit") /\ locals[p].author_id \notin RowIds(users))
              => /\ posts' = posts
                 /\ pc'[p] = "idle"
                 /\ response'.status \notin {"ok", "none"}]_vars

\* C2: in every reachable state every Post's author_id is the id of a User
\* in the store.
C2_NoDanglingAuthor == \A post \in posts : post.author_id \in RowIds(users)

\* C3: get_user of an existing user does not fail, and the posts it returns
\* are, as a set, exactly the store's posts whose author_id is that user's id.
C3_GetUserPosts ==
    /\ (response.op = "get_user" /\ response.args[1] \in RowIds(users))
           => response.status = "ok"
    /\ Returned("get_user") =>
           LET u == response.value[1]
           IN /\ u.id = Some(response.args[1])
              /\ {u.posts[i] : i \in DOMAIN u.posts}
                     = {PostType(Loaded(r)) : r \in {x \in posts : x.author_id = u.id[1]}}

C3_Witness ==
    /\ Returned("get_user")
    /\ Len(response.value[1].posts) = 2
    /\ response.value[1].posts[1] # response.value[1].posts[2]

\* C4: when create_user returns user U, no Post in the store has
\* author_id = U.id.
C4_NewUserOwnsNoPosts ==
    Returned("create_user") =>
        \A post \in posts : Some(post.author_id) # response.value[1].id

\* C5: get_user and get_post of an id that no row has ever been given fail
\* with NotFound and return no record.
C5_NotFound ==
    /\ (response.op = "get_user" /\ response.args[1] \notin RowIds(users))
           => (response.status = "NotFound" /\ response.value = None)
    /\ (response.op = "get_post" /\ response.args[1] \notin RowIds(posts))
           => (response.status = "NotFound" /\ response.value = None)

C5_Witness ==
    /\ response.op \in {"get_user", "get_post"}
    /\ response.status = "NotFound"
    /\ users # {}
    /\ posts # {}

\* C6: the User create_user returns has a generated id, the submitted name
\* and email, no posts, and is a row of the store.
C6_CreateUserEcho ==
    Returned("create_user") =>
        LET u == response.value[1]
        IN /\ u.id # None
           /\ u.name = response.args[1]
           /\ u.email = response.args[2]
           /\ u.posts = <<>>
           /\ [id |-> u.id[1], name |-> response.args[1], email |-> response.args[2]] \in users

C6_Witness ==
    /\ Returned("create_user")
    /\ response.args[1] = ""
    /\ Cardinality(users) = 2

\* C7: the Post create_post returns carries the submitted author_id, and a
\* later get_post of its id succeeds and returns the same five field values.
C7_PostRoundTrip ==
    /\ Returned("create_post") =>
           /\ response.value[1].id # None
           /\ response.value[1].author_id = response.args[4]
    /\ response.op = "get_post" =>
           \A P \in created :
               P.id = Some(response.args[1])
                   => (response.status = "ok" /\ response.value[1] = P)

C7_Witness ==
    /\ Returned("get_post")
    /\ response.value[1] \in created
    /\ response.value[1].author_id = 2
    /\ Cardinality(created) = 2

\* C8: no two rows of a table share an id, a row keeps its id, and a
\* generated id is never one that a row already has.
UniqueIds(table) == \A r1, r2 \in table : r1.id = r2.id => r1 = r2

C8_IdsUniqueAndStable ==
    [][/\ UniqueIds(users') /\ UniqueIds(posts')
       /\ users \subseteq users' /\ posts \subseteq posts'
       /\ \A r \in users' \ users : r.id \notin RowIds(users)
       /\ \A r \in posts' \ posts : r.id \notin RowIds(posts)]_vars

C8_Witness ==
    /\ \E p, q \in Procs : p # q /\ pc[p] = "create_user_refresh" /\ pc[q] = "create_user_refresh"
    /\ Cardinality(users) = 2
    /\ Cardinality(posts) = 1

\* C9: a handler inside a resolver holds exactly one open session, which no
\* other handler holds; a handler outside holds none; and the open sessions
\* are exactly those held, so none stays open once every resolver is left.
C9_SessionPerOperation ==
    /\ \A p \in Procs : pc[p] = "idle" <=> session[p] = None
    /\ \A p \in Procs : session[p] # None => session[p][1] \in open
    /\ \A p, q \in Procs : (p # q /\ session[p] # None) => session[p] # session[q]
    /\ open = {session[p][1] : p \in {q \in Procs : session[q] # None}}

C9_Witness ==
    /\ response.status = "OperationalError"
    /\ \A p \in Procs : pc[p] = "idle"
    /\ open = {}
    /\ users # {}

====
